---- MODULE Spec2Model ----
(***************************************************************************)
(* Model of the mcp-wp gateway: the Express middleware chain in front of   *)
(* /mcp, the Streamable-HTTP transport it hands requests to, and the       *)
(* WordPress tool handlers registered on the MCP server.                   *)
(*                                                                         *)
(* The repository holds several stand-alone server programs (revisions of  *)
(* the HTTP entry point).  The variable rev says which one is running:     *)
(*   "http_a"   src/src/http.ts lines 1-134   (bearer auth, singleton)     *)
(*   "http_b"   src/src/http.ts lines 136-258 (singleton, safety nets)     *)
(*   "part_000" src/unnamed/part_000          (transport per request)      *)
(*   "part_001" src/unnamed/part_001          (transport per request)      *)
(*   "part_002" src/unnamed/part_002          (WordPress tools, singleton) *)
(*                                                                         *)
(* StreamableHTTPServerTransport is a library class; its session checks    *)
(* are modelled by what handleRequest does with the fields sessionId and   *)
(* _initialized of the instance the program passes the request to.         *)
(***************************************************************************)
EXTENDS Integers, Sequences, FiniteSets, TLC

VARIABLES rev, envToken, created, transport, issued, closedIds, nreq, idle, last,
          alive, failure, nfail,
          toolPc, toolIn, wpReq, wpCount, toolOut

\* alive: the Node process is running; failure: what became of the latest
\* failure; nfail: how many failures were raised so far
procVars == <<alive, failure, nfail>>

gwVars == <<rev, envToken, created, transport, issued, closedIds, nreq, idle, last,
            procVars>>

toolVars == <<toolPc, toolIn, wpReq, wpCount, toolOut>>

vars == <<gwVars, toolVars>>

(* ---------------------------------------------------------------- bounds *)
MaxRequests == 3
MaxIdle == 1
MaxIdLen == 2
MaxToolCalls == 2
MaxFailures == 2

(* ------------------------------------------------------------- revisions *)
Revisions == {"http_a", "http_b", "part_000", "part_001", "part_002"}

\* const transport = new StreamableHTTPServerTransport(...) at module level
Singleton(r) == r \in {"http_a", "http_b", "part_002"}

\* the revision registers the bearer middleware on /mcp
HasBearerAuth(r) == r = "http_a"

\* the revision registers the session header normalisation middleware
HasNormalize(r) == r \in {"http_a", "http_b", "part_002"}

\* the transport is constructed with sessionIdGenerator: () => randomUUID()
HasGenerator(r) == r # "part_000"

(* ------------------------------------------------------------- requests  *)
NoSid == 0
LowerName == "mcp-session-id"
MixedName == "Mcp-Session-Id"
SidNames == {LowerName, MixedName, "none"}
\* an identifier no transport ever mints
UnknownSid == MaxRequests + 2
ClientSids == {1, 2, UnknownSid}
Methods == {"POST", "DELETE"}
EnvTokens == {"", "secret"}
AuthHeaders == {"", "Bearer secret", "Bearer wrong"}
\* the client's Accept header; "" when it sends none
AcceptJson == "application/json"
AcceptValues == {"", AcceptJson}

Requests ==
    {q \in [method : Methods, init : BOOLEAN, auth : AuthHeaders,
            sidName : SidNames, sidValue : ClientSids, accept : AcceptValues] :
        /\ q.sidName = "none" => q.sidValue = 1
        \* a DELETE carries no body, hence no initialize message
        /\ q.method = "DELETE" => ~q.init
        \* the Accept step and the session-header step read different headers:
        \* an explicit Accept is tried on requests without a session header
        /\ q.accept # "" => q.sidName = "none"}

\* req.headers as the handlers index it: one entry per spelling of the key
Headers(req) ==
    [lower |-> IF req.sidName = LowerName THEN req.sidValue ELSE NoSid,
     mixed |-> IF req.sidName = MixedName THEN req.sidValue ELSE NoSid]

\* Express req.get(name): lower-cases the name and indexes req.headers
ReqGet(h, name) == h.lower

(* ----------------------------------------------------------- middleware  *)
\* const TOKEN = process.env.MCP_BEARER_TOKEN?.trim()
TOKEN == envToken

\* TRUE when the bearer middleware calls next()
BearerAuth(req) ==
    IF TOKEN = "" THEN TRUE
    ELSE IF req.auth = "Bearer " \o TOKEN THEN TRUE
    ELSE FALSE

\* a ?? b on header values
Coalesce(a, b) == IF a # NoSid THEN a ELSE b

\* a normalisation that only looks at the lower-case spelling
NormalizeLowerOnly(h) ==
    LET sid == Coalesce(h.lower, ReqGet(h, LowerName))
    IN IF sid # NoSid THEN [lower |-> sid, mixed |-> sid] ELSE h

NormalizeSessionHeader(h) ==
    LET sid == Coalesce(h.lower,
                 Coalesce(h.mixed,
                   Coalesce(ReqGet(h, MixedName), ReqGet(h, LowerName))))
    IN IF sid # NoSid THEN [lower |-> sid, mixed |-> sid] ELSE h

\* the revision registers the content negotiation middleware
HasAcceptRewrite(r) == r # "part_000"

\* req.headers["accept"] = "application/json, text/event-stream"
AcceptUnion == "application/json, text/event-stream"

\* the Accept header transport.handleRequest sees
AcceptSeen(r, req) == IF HasAcceptRewrite(r) THEN AcceptUnion ELSE req.accept

\* the transport is built without enableJsonResponse: a dispatched POST is
\* answered on an event stream whatever Accept it sees
ResponseMode(seen) == "sse"

\* the headers the /mcp handler passes on to transport.handleRequest
ChainHeaders(r, req) ==
    IF HasNormalize(r) THEN NormalizeSessionHeader(Headers(req)) ELSE Headers(req)

(* ------------------------------------------------------------ transport  *)
NewTransport(n, r) ==
    [id |-> n, sessionId |-> NoSid, initialized |-> FALSE, closed |-> FALSE,
     generator |-> HasGenerator(r)]

\* randomUUID(): a value never returned before
UuidSpace == 1..(MaxRequests + 1)
RandomUUID(used) ==
    CHOOSE v \in UuidSpace : v \notin used /\ \A w \in UuidSpace : w \notin used => v <= w

Reject(t, code) ==
    [status |-> code, t |-> t, dispatched |-> FALSE, respSid |-> NoSid, minted |-> NoSid]

\* 0 when the request passes validateSession, else the status it is refused with
ValidateSession(t, h) ==
    IF ~t.generator THEN 0
    ELSE IF ~t.initialized THEN 400
    ELSE IF h.lower = NoSid THEN 400
    ELSE IF h.lower # t.sessionId THEN 404
    ELSE 0

\* a message handed to the connected server: after close() the server is
\* detached from the transport and the reply may never be written
Dispatch(t, t2, minted) ==
    {[status |-> s, t |-> t2, dispatched |-> TRUE, respSid |-> t2.sessionId, minted |-> minted] :
        s \in IF t.closed THEN {200, 0} ELSE {200}}

HandlePostRequest(t, req, h, used) ==
    IF req.init
    THEN IF t.initialized /\ t.sessionId # NoSid
         THEN {Reject(t, 400)}
         ELSE LET sid == IF t.generator THEN RandomUUID(used) ELSE NoSid
                  t2 == [t EXCEPT !.sessionId = sid, !.initialized = TRUE]
              IN Dispatch(t, t2, sid)
    ELSE IF ValidateSession(t, h) # 0
         THEN {Reject(t, ValidateSession(t, h))}
         ELSE Dispatch(t, t, NoSid)

HandleDeleteRequest(t, req, h) ==
    IF ValidateSession(t, h) # 0
    THEN {Reject(t, ValidateSession(t, h))}
    ELSE {[status |-> 200, t |-> [t EXCEPT !.closed = TRUE], dispatched |-> FALSE,
           respSid |-> NoSid, minted |-> NoSid]}

\* the set of outcomes of transport.handleRequest(req, res)
HandleRequest(r, t, req, h, used) ==
    IF r = "part_000"
    THEN \* constructed without options behind express.json(): outcome not fixed
         {[status |-> s, t |-> t, dispatched |-> (s = 200), respSid |-> NoSid, minted |-> NoSid] :
             s \in {200, 400, 0}}
    ELSE IF req.method = "POST" THEN HandlePostRequest(t, req, h, used)
    ELSE HandleDeleteRequest(t, req, h)

(* ------------------------------------------------- tool argument values  *)
Undef == [t |-> "undef"]
IntVal(n) == [t |-> "int", n |-> n]
FracVal == [t |-> "frac"]
StrVal(cs) == [t |-> "str", s |-> cs]
BoolVal == [t |-> "bool"]

\* optional string fields: the marker stands for a field that is not given
NotGiven == "<undefined>"

IdChars == {"4", "a", ".", " "}
RECURSIVE SeqsUpTo(_)
SeqsUpTo(n) ==
    IF n = 0 THEN {<<>>}
    ELSE LET shorter == SeqsUpTo(n - 1)
         IN shorter \cup {Append(q, c) : q \in {x \in shorter : Len(x) = n - 1}, c \in IdChars}

IdValues ==
    {StrVal(cs) : cs \in SeqsUpTo(MaxIdLen)}
        \cup {IntVal(42), IntVal(4), IntVal(44), IntVal(0), FracVal, Undef, BoolVal}

(* --------------------------------------------------- Number(v) on an id  *)
NaN == [k |-> "nan"]
IntNum(n) == [k |-> "int", n |-> n]
FracNum == [k |-> "frac"]

RECURSIVE TrimLeft(_)
TrimLeft(cs) == IF cs # <<>> /\ Head(cs) = " " THEN TrimLeft(Tail(cs)) ELSE cs

RECURSIVE TrimRight(_)
TrimRight(cs) ==
    IF cs # <<>> /\ cs[Len(cs)] = " " THEN TrimRight(SubSeq(cs, 1, Len(cs) - 1)) ELSE cs

IsDigits(cs) == \A i \in 1..Len(cs) : cs[i] = "4"

RECURSIVE DigitsValue(_)
DigitsValue(cs) ==
    IF cs = <<>> THEN 0 ELSE 10 * DigitsValue(SubSeq(cs, 1, Len(cs) - 1)) + 4

\* StringToNumber: white space is trimmed, the empty string is 0, a decimal
\* literal is its value and anything else is NaN
StringToNumber(cs) ==
    LET body == TrimRight(TrimLeft(cs))
        dots == {i \in 1..Len(body) : body[i] = "."}
    IN IF body = <<>> THEN IntNum(0)
       ELSE IF IsDigits(body) THEN IntNum(DigitsValue(body))
       ELSE IF Cardinality(dots) = 1
            THEN LET d == CHOOSE i \in dots : TRUE
                     whole == SubSeq(body, 1, d - 1)
                     part == SubSeq(body, d + 1, Len(body))
                 IN IF ~(IsDigits(whole) /\ IsDigits(part)) THEN NaN
                    ELSE IF whole = <<>> /\ part = <<>> THEN NaN
                    ELSE IF part = <<>> THEN IntNum(DigitsValue(whole))
                    ELSE FracNum
            ELSE NaN

\* an id schema that takes numbers only
IdSchemaNumbersOnly(v) ==
    IF v.t = "int" THEN [ok |-> TRUE, value |-> IntNum(v.n)]
    ELSE IF v.t = "frac" THEN [ok |-> TRUE, value |-> FracNum]
    ELSE [ok |-> FALSE, value |-> NaN]

\* z.union([z.string(), z.number()]).transform((v) => Number(v))
IdSchema(v) ==
    IF v.t = "str" THEN [ok |-> TRUE, value |-> StringToNumber(v.s)]
    ELSE IF v.t = "int" THEN [ok |-> TRUE, value |-> IntNum(v.n)]
    ELSE IF v.t = "frac" THEN [ok |-> TRUE, value |-> FracNum]
    ELSE [ok |-> FALSE, value |-> NaN]

(* --------------------------------------------------------- input schemas *)
\* z.enum(["post", "page"])
ContentTypeEnum(v) == v \in {"post", "page"}

StatusEnum(v) == v \in {"publish", "draft", "pending", "private"}

\* z.string().min(1).optional()
OptionalNonEmpty(v) == v = NotGiven \/ v # ""

\* z.string().min(1)
NonEmpty(v) == v # NotGiven /\ v # ""

OptionalStatus(v) == v = NotGiven \/ StatusEnum(v)

\* z.boolean().default(true).optional()
OptionalBoolean(v) == v \in {NotGiven, "true", "false"}

PerPageMax == 100
PerPageDefault == 10
PageDefault == 1

\* z.number().int().positive().default(1).optional()
PageSchema(v) == v.t = "undef" \/ (v.t = "int" /\ v.n > 0)

\* a page size schema without the upper limit
PerPageSchemaNoMax(v) == v.t = "undef" \/ (v.t = "int" /\ v.n > 0)

\* z.number().int().positive().max(100).default(10).optional()
PerPageSchema(v) == v.t = "undef" \/ (v.t = "int" /\ v.n > 0 /\ v.n <= PerPageMax)

(* ------------------------------------------------------------ tool state *)
NoInvocation ==
    [tool |-> "-", type |-> NotGiven, id |-> Undef, title |-> NotGiven,
     content |-> NotGiven, status |-> NotGiven, slug |-> NotGiven,
     page |-> Undef, per_page |-> Undef, search |-> NotGiven, force |-> NotGiven]

NoWpRequest == [verb |-> "-", type |-> NotGiven, id |-> NaN, hasId |-> FALSE, body |-> << >>, action |-> "-"]

NoStatus == -1
NoError == [source |-> "-", action |-> "-", status |-> NoStatus, detail |-> FALSE]
NoResponse == [status |-> NoStatus, data |-> "none", statusText |-> ""]

NoOutcome == [kind |-> "none", callsBefore |-> 0, err |-> NoError, resp |-> NoResponse, sent |-> NoWpRequest]

TypeValues == {"post", "page", "user", NotGiven}
TextValues == {NotGiven, "", "x"}
StatusValues == {NotGiven, "publish", "bogus"}
ForceValues == {NotGiven, "true", "false", "yes"}
PageValues == {Undef, IntVal(0), IntVal(1), IntVal(2), FracVal}
PerPageValues == {Undef, IntVal(0), IntVal(1), IntVal(PerPageMax), IntVal(PerPageMax + 1), IntVal(150), FracVal}

\* the SDK refuses the arguments before the handler runs
Invalid(inv) ==
    /\ toolPc' = "idle"
    /\ toolIn' = inv
    /\ toolOut' = [kind |-> "invalid", callsBefore |-> wpCount, err |-> NoError,
                   resp |-> NoResponse, sent |-> NoWpRequest]
    /\ UNCHANGED <<wpReq, wpCount>>

\* the handler throws before any remote call
Throw(inv, e) ==
    /\ toolPc' = "idle"
    /\ toolIn' = inv
    /\ toolOut' = [kind |-> "error", callsBefore |-> wpCount, err |-> e,
                   resp |-> NoResponse, sent |-> NoWpRequest]
    /\ UNCHANGED <<wpReq, wpCount>>

\* await wp.get / wp.post / wp.delete: the request is sent, the handler waits
Send(inv, r) ==
    /\ toolPc' = "awaiting"
    /\ toolIn' = inv
    /\ wpReq' = r
    /\ wpCount' = wpCount + 1
    /\ toolOut' = [kind |-> "pending", callsBefore |-> wpCount, err |-> NoError,
                   resp |-> NoResponse, sent |-> r]

\* a handler starts with fresh locals; the remote-call counter is capped
CanInvoke == toolPc = "idle" /\ toolOut.kind = "none" /\ wpCount < MaxToolCalls

(* --------------------------------------------------------- tool handlers *)
ListContent ==
    /\ CanInvoke
    /\ UNCHANGED gwVars
    /\ \E ty \in TypeValues, pg \in PageValues, pp \in PerPageValues,
          se \in TextValues, st \in StatusValues :
        LET inv == [NoInvocation EXCEPT !.tool = "list_content", !.type = ty, !.page = pg,
                                        !.per_page = pp, !.search = se, !.status = st]
            type == IF ty = NotGiven THEN "post" ELSE ty
            page == IF pg.t = "undef" THEN PageDefault ELSE pg.n
            per_page == IF pp.t = "undef" THEN PerPageDefault ELSE pp.n
        IN IF ~(/\ (ty = NotGiven \/ ContentTypeEnum(ty))
                /\ PageSchema(pg) /\ PerPageSchema(pp)
                /\ OptionalNonEmpty(se) /\ OptionalStatus(st))
           THEN Invalid(inv)
           ELSE Send(inv, [verb |-> "GET", type |-> type, id |-> NaN, hasId |-> FALSE,
                           body |-> [page |-> page, per_page |-> per_page, embed |-> TRUE,
                                     search |-> se, status |-> st],
                           action |-> "list"])

\* what get_content does with its arguments: ok is FALSE when the input
\* schema refuses them, else req is wp.get(`/${type}/${id}`, {params})
GetContentCall(ty, idv) ==
    LET id == IdSchema(idv)
    IN [ok |-> ContentTypeEnum(ty) /\ id.ok,
        req |-> [verb |-> "GET", type |-> ty, id |-> id.value, hasId |-> TRUE,
                 body |-> [embed |-> TRUE], action |-> "get"]]

GetContent ==
    /\ CanInvoke
    /\ UNCHANGED gwVars
    /\ \E ty \in TypeValues, idv \in IdValues :
        LET inv == [NoInvocation EXCEPT !.tool = "get_content", !.type = ty, !.id = idv]
            call == GetContentCall(ty, idv)
        IN IF ~call.ok
           THEN Invalid(inv)
           ELSE Send(inv, call.req)

CreateContent ==
    /\ CanInvoke
    /\ UNCHANGED gwVars
    /\ \E ty \in TypeValues, ti \in TextValues, co \in TextValues,
          st \in StatusValues, sl \in TextValues :
        LET inv == [NoInvocation EXCEPT !.tool = "create_content", !.type = ty, !.title = ti,
                                        !.content = co, !.status = st, !.slug = sl]
            status == IF st = NotGiven THEN "draft" ELSE st
        IN IF ~(/\ ContentTypeEnum(ty) /\ NonEmpty(ti) /\ NonEmpty(co)
                /\ OptionalStatus(st) /\ OptionalNonEmpty(sl))
           THEN Invalid(inv)
           ELSE Send(inv, [verb |-> "POST", type |-> ty, id |-> NaN, hasId |-> FALSE,
                           body |-> [title |-> ti, content |-> co, status |-> status,
                                     slug |-> sl],
                           action |-> "create"])

\* the fields update_content copies into the patch: those that are truthy
Patch(ti, co, st, sl) ==
    [title |-> IF ti # NotGiven /\ ti # "" THEN ti ELSE NotGiven,
     content |-> IF co # NotGiven /\ co # "" THEN co ELSE NotGiven,
     status |-> IF st # NotGiven /\ st # "" THEN st ELSE NotGiven,
     slug |-> IF sl # NotGiven /\ sl # "" THEN sl ELSE NotGiven]

\* an update that never notices an empty patch
PatchIsEmptyNever(p) == FALSE

\* Object.keys(patch).length === 0
PatchIsEmpty(p) ==
    p.title = NotGiven /\ p.content = NotGiven /\ p.status = NotGiven /\ p.slug = NotGiven

UpdateContent ==
    /\ CanInvoke
    /\ UNCHANGED gwVars
    /\ \E ty \in TypeValues, idv \in IdValues, ti \in TextValues, co \in {NotGiven, "x"},
          st \in StatusValues, sl \in {NotGiven, "x"} :
        LET inv == [NoInvocation EXCEPT !.tool = "update_content", !.type = ty, !.id = idv,
                                        !.title = ti, !.content = co, !.status = st,
                                        !.slug = sl]
            id == IdSchema(idv)
            patch == Patch(ti, co, st, sl)
        IN IF ~(/\ ContentTypeEnum(ty) /\ id.ok /\ OptionalNonEmpty(ti)
                /\ OptionalNonEmpty(co) /\ OptionalStatus(st) /\ OptionalNonEmpty(sl))
           THEN Invalid(inv)
           ELSE IF PatchIsEmpty(patch)
                THEN Throw(inv, [source |-> "Nothing to update", action |-> "update",
                                 status |-> NoStatus, detail |-> FALSE])
                ELSE Send(inv, [verb |-> "POST", type |-> ty, id |-> id.value,
                                hasId |-> TRUE, body |-> patch, action |-> "update"])

DeleteContent ==
    /\ CanInvoke
    /\ UNCHANGED gwVars
    /\ \E ty \in TypeValues, idv \in IdValues, fo \in ForceValues :
        LET inv == [NoInvocation EXCEPT !.tool = "delete_content", !.type = ty, !.id = idv,
                                        !.force = fo]
            id == IdSchema(idv)
            force == IF fo = NotGiven THEN "true" ELSE fo
        IN IF ~(ContentTypeEnum(ty) /\ id.ok /\ OptionalBoolean(fo))
           THEN Invalid(inv)
           ELSE Send(inv, [verb |-> "DELETE", type |-> ty, id |-> id.value, hasId |-> TRUE,
                           body |-> [force |-> force], action |-> "delete"])

(* --------------------------------------------------------------- wpCheck *)
WpStatuses == {199, 200, 299, 300, 404}
WpData == {"none", "plain", "message"}
WpStatusTexts == {"", "Refused"}
WpResponses == [status : WpStatuses, data : WpData, statusText : WpStatusTexts]

\* a check that lets every status below 400 through
WpCheckLax(resp, action) ==
    IF resp.status >= 200 /\ resp.status < 400 THEN NoError
    ELSE [source |-> IF resp.data = "message" THEN "data.message"
                     ELSE IF resp.statusText # "" THEN "statusText"
                     ELSE "default",
          action |-> action,
          status |-> IF resp.data # "message" /\ resp.statusText = "" THEN resp.status
                     ELSE NoStatus,
          detail |-> resp.data # "none"]

\* NoError when wpCheck returns, else the Error it throws: the text comes
\* from data.message, else statusText, else a default naming the status, and
\* is followed by the JSON of data when there is data
WpCheck(resp, action) ==
    IF resp.status >= 200 /\ resp.status < 300 THEN NoError
    ELSE [source |-> IF resp.data = "message" THEN "data.message"
                     ELSE IF resp.statusText # "" THEN "statusText"
                     ELSE "default",
          action |-> action,
          status |-> IF resp.data # "message" /\ resp.statusText = "" THEN resp.status
                     ELSE NoStatus,
          detail |-> resp.data # "none"]

\* the remote API answers and the waiting handler runs to its end
WpRespond ==
    /\ toolPc = "awaiting"
    /\ UNCHANGED gwVars
    /\ \E resp \in WpResponses :
        LET e == WpCheck(resp, wpReq.action)
        IN toolOut' = [kind |-> IF e = NoError THEN "ok" ELSE "error",
                       callsBefore |-> toolOut.callsBefore, err |-> e,
                       resp |-> resp, sent |-> wpReq]
    /\ toolPc' = "idle"
    /\ UNCHANGED <<toolIn, wpReq, wpCount>>

\* the result (or failure) has been handed back and the invocation is dropped
Settle ==
    /\ toolPc = "idle"
    /\ UNCHANGED gwVars
    /\ toolOut.kind # "none"
    /\ toolIn' = NoInvocation
    /\ toolOut' = NoOutcome
    /\ wpReq' = NoWpRequest
    /\ UNCHANGED <<toolPc, wpCount>>

ToolNext ==
    \/ ListContent
    \/ GetContent
    \/ CreateContent
    \/ UpdateContent
    \/ DeleteContent
    \/ WpRespond
    \/ Settle


(* ------------------------------------------------------------- failures  *)
\* try { await transport.handleRequest(req, res) } catch (err) { next(err) }
HasTryCatch(r) == r # "part_000"

\* app.use((err, _req, res, _next) => ...) registered after the /mcp route
HasErrorHandler(r) == r # "part_000"

\* process.on("unhandledRejection", ...) and process.on("uncaughtException", ...)
HasSafetyNets(r) == r \in {"http_b", "part_001"}

\* res.status(500).json({ error: "Internal Server Error" })
GenericBody == "Internal Server Error"

\* a response body that carries the error's message or stack
StackBody == "stack"

AsyncKinds == {"unhandledRejection", "uncaughtException"}

NoFailure ==
    [kind |-> "none", status |-> 0, body |-> "", logged |-> FALSE, handled |-> FALSE]

\* the error-handling middleware: console.error, then the 500 reply; once the
\* response has started, res.status(500).json(...) cannot replace it and the
\* connection is torn down with what was already written
ErrorHandler(sent) ==
    [kind |-> "request",
     status |-> IF sent THEN 200 ELSE 500,
     body |-> IF sent THEN "" ELSE GenericBody,
     logged |-> TRUE, handled |-> TRUE]

\* what the runtime does with a failure no process.on listener is registered
\* for: an uncaught exception ends the process; an unobserved rejection ends it
\* or only warns, depending on the runtime's unhandled-rejections mode
RuntimeDefault(kind) ==
    IF kind = "uncaughtException" THEN {FALSE} ELSE {FALSE, TRUE}

\* the listeners of the safety nets log with console.error and return
SafetyNet(r, kind) ==
    IF HasSafetyNets(r)
    THEN {[alive |-> TRUE, handled |-> TRUE]}
    ELSE {[alive |-> a, handled |-> FALSE] : a \in RuntimeDefault(kind)}

\* the outcomes of a /mcp request whose transport.handleRequest rejects, with
\* the response headers already sent or not
FailureOutcomes(r, sent) ==
    IF HasTryCatch(r) /\ HasErrorHandler(r)
    THEN {[alive |-> TRUE, f |-> ErrorHandler(sent)]}
    ELSE \* the async route handler's promise rejects with nothing awaiting it:
         \* the router either never sees it (an unobserved rejection) or hands
         \* it to the framework's built-in handler, which replies 500 itself
         {[alive |-> n.alive,
           f |-> [kind |-> "request", status |-> IF sent THEN 200 ELSE 0, body |-> "",
                  logged |-> TRUE, handled |-> n.handled]] :
             n \in SafetyNet(r, "unhandledRejection")}
         \cup {[alive |-> TRUE,
                f |-> [kind |-> "request", status |-> IF sent THEN 200 ELSE 500,
                       body |-> IF sent THEN "" ELSE b, logged |-> TRUE,
                       handled |-> FALSE]] : b \in {GenericBody, StackBody}}

(* --------------------------------------------------------------- server  *)
NoRequest ==
    [method |-> "-", init |-> FALSE, auth |-> "", sidName |-> "none", sidValue |-> 1,
     status |-> 0, reached |-> FALSE, dispatched |-> FALSE, respSid |-> NoSid,
     minted |-> NoSid, fresh |-> FALSE, by |-> 0, idleAt |-> 0, known |-> FALSE,
     wasClosed |-> FALSE, accept |-> "", acceptSeen |-> "", mode |-> "none"]

ToolInit ==
    /\ toolPc = "idle"
    /\ toolIn = NoInvocation
    /\ wpReq = NoWpRequest
    /\ wpCount = 0
    /\ toolOut = NoOutcome

Init ==
    /\ ToolInit
    /\ rev \in Revisions
    /\ envToken \in EnvTokens
    /\ created = IF Singleton(rev) THEN 1 ELSE 0
    /\ transport = NewTransport(IF Singleton(rev) THEN 1 ELSE 0, rev)
    /\ issued = {}
    /\ closedIds = {}
    /\ nreq = 0
    /\ idle = 0
    /\ last = NoRequest
    /\ alive = TRUE
    /\ failure = NoFailure
    /\ nfail = 0

\* the transport instance the /mcp handler of revision r uses for a request
TransportFor(r) ==
    IF Singleton(r) THEN transport ELSE NewTransport(created + 1, r)

\* the outcomes of the whole /mcp chain for one request
McpOutcomes(r, req) ==
    IF HasBearerAuth(r) /\ ~BearerAuth(req)
    THEN {[status |-> 401, t |-> transport, dispatched |-> FALSE, respSid |-> NoSid,
           minted |-> NoSid, reached |-> FALSE]}
    ELSE {[status |-> o.status, t |-> o.t, dispatched |-> o.dispatched,
           respSid |-> o.respSid, minted |-> o.minted, reached |-> TRUE] :
            o \in HandleRequest(r, TransportFor(r), req, ChainHeaders(r, req), issued)}

McpRequest(req) ==
    /\ alive
    /\ nreq < MaxRequests
    /\ \E o \in McpOutcomes(rev, req) :
        /\ transport' = o.t
        /\ created' = IF o.reached /\ ~Singleton(rev) THEN created + 1 ELSE created
        /\ issued' = IF o.minted # NoSid THEN issued \cup {o.minted} ELSE issued
        /\ closedIds' = IF o.t.closed /\ o.t.sessionId # NoSid
                        THEN closedIds \cup {o.t.sessionId} ELSE closedIds
        /\ last' = [method |-> req.method, init |-> req.init, auth |-> req.auth,
                    sidName |-> req.sidName, sidValue |-> req.sidValue,
                    status |-> o.status, reached |-> o.reached,
                    dispatched |-> o.dispatched, respSid |-> o.respSid,
                    minted |-> o.minted,
                    fresh |-> (o.minted # NoSid /\ o.minted \notin issued),
                    by |-> IF o.reached THEN o.t.id ELSE 0,
                    idleAt |-> idle,
                    known |-> (req.sidName # "none" /\ req.sidValue \in issued),
                    wasClosed |-> (req.sidName # "none" /\ req.sidValue \in closedIds),
                    accept |-> req.accept,
                    acceptSeen |-> IF o.reached THEN AcceptSeen(rev, req) ELSE "",
                    mode |-> IF o.dispatched /\ req.method = "POST"
                             THEN ResponseMode(AcceptSeen(rev, req)) ELSE "none"]
    /\ nreq' = nreq + 1
    /\ idle' = 0
    /\ UNCHANGED <<rev, envToken, procVars>>
    /\ UNCHANGED toolVars

Request == \E req \in Requests : McpRequest(req)

\* a timer that would close the session once it has been idle for MaxIdle
TickSweep ==
    /\ idle < MaxIdle
    /\ idle' = idle + 1
    /\ transport' = IF idle' >= MaxIdle
                    THEN [transport EXCEPT !.sessionId = NoSid]
                    ELSE transport
    /\ UNCHANGED <<rev, envToken, created, issued, closedIds, nreq, last, procVars>>
    /\ UNCHANGED toolVars

\* time passes with no traffic; the programs register no timer
Tick ==
    /\ idle < MaxIdle
    /\ idle' = idle + 1
    /\ UNCHANGED <<rev, envToken, created, transport, issued, closedIds, nreq, last,
                   procVars>>
    /\ UNCHANGED toolVars

Next == Request \/ Tick

Spec == Init /\ [][Next]_vars

\* the WordPress tools are registered by src/unnamed/part_002 only
ToolSpecInit ==
    /\ ToolInit
    /\ rev = "part_002"
    /\ envToken = ""
    /\ created = 1
    /\ transport = NewTransport(1, rev)
    /\ issued = {}
    /\ closedIds = {}
    /\ nreq = 0
    /\ idle = 0
    /\ last = NoRequest
    /\ alive = TRUE
    /\ failure = NoFailure
    /\ nfail = 0

ToolSpec == ToolSpecInit /\ [][ToolNext]_vars

\* the requests used to probe the server around a failure: every method, both
\* kinds of body and every Authorization value, with or without a session header
ProbeRequests ==
    {q \in Requests : q.accept = "" /\ q.sidName # MixedName /\ q.sidValue = 1}

ProbeRequest == \E req \in ProbeRequests : McpRequest(req)

\* a /mcp request during which transport.handleRequest rejects
McpRequestFails(req, sent) ==
    /\ alive
    /\ nreq < MaxRequests
    /\ nfail < MaxFailures
    /\ HasBearerAuth(rev) => BearerAuth(req)
    /\ \E o \in FailureOutcomes(rev, sent) :
        /\ alive' = o.alive
        /\ failure' = o.f
    /\ nfail' = nfail + 1
    /\ nreq' = nreq + 1
    /\ idle' = 0
    /\ UNCHANGED <<rev, envToken, created, transport, issued, closedIds, last>>
    /\ UNCHANGED toolVars

RequestFails == \E req \in ProbeRequests, sent \in BOOLEAN : McpRequestFails(req, sent)

\* a rejection nobody observes or an exception nobody catches, raised outside
\* any request handler
AsyncFailure ==
    /\ alive
    /\ nfail < MaxFailures
    /\ \E kind \in AsyncKinds :
        \E n \in SafetyNet(rev, kind) :
            /\ alive' = n.alive
            /\ failure' = [kind |-> kind, status |-> 0, body |-> "", logged |-> TRUE,
                           handled |-> n.handled]
    /\ nfail' = nfail + 1
    /\ UNCHANGED <<rev, envToken, created, transport, issued, closedIds, nreq, idle, last>>
    /\ UNCHANGED toolVars

FaultNext == ProbeRequest \/ RequestFails \/ AsyncFailure

FaultSpec == Init /\ [][FaultNext]_vars

(* ------------------------------------------------------------ properties *)
Answered == last.method # "-"

\* the last request passed the bearer step (or the revision has none)
PastAuth == Answered /\ last.status # 401

\* the last request is a tool invocation (not initialize) bearing an
\* identifier that was issued and has not been closed
BearsLiveSid ==
    /\ PastAuth /\ last.method = "POST" /\ ~last.init
    /\ last.sidName # "none" /\ last.known /\ ~last.wasClosed

ReqWith(m, i, a, n, v) ==
    [method |-> m, init |-> i, auth |-> a, sidName |-> n, sidValue |-> v, accept |-> ""]

\* C1: exactly one transport instance is ever created and connected per
\* process, and every request that reaches the /mcp handler is handled by
\* that instance.
C1_OneTransport ==
    last.reached => (created = 1 /\ last.by = 1)

\* C2: on the servers with a module-level transport, a tool invocation
\* bearing a live session identifier is answered under that identifier, and
\* an initialize request presenting no identifier is answered with a freshly
\* minted one (for each new client conversation).
C2_SessionEcho ==
    Singleton(rev) =>
        /\ (BearsLiveSid => (last.dispatched /\ last.respSid = last.sidValue))
        /\ (PastAuth /\ last.method = "POST" /\ last.init /\ last.sidName = "none"
              => (last.fresh /\ last.respSid = last.minted))

\* C3: a request reaches the dispatch pipeline iff no bearer token is
\* configured or its Authorization header is exactly "Bearer <token>";
\* otherwise it is answered 401 and the pipeline is not invoked.
C3_BearerGate ==
    Answered =>
        /\ last.reached <=> (envToken = "" \/ last.auth = "Bearer " \o envToken)
        /\ ~last.reached => last.status = 401

\* C4: a request presenting a session identifier under one spelling of the
\* header name has the same outcomes as the request presenting the same value
\* under the other spelling; a request carrying neither spelling keeps no
\* session identifier and the normalisation step lets it through.
C4_CaseInvariant ==
    \A m \in Methods, i \in BOOLEAN, a \in AuthHeaders :
        /\ \A v \in ClientSids :
              /\ McpOutcomes(rev, ReqWith(m, i, a, LowerName, v))
                   = McpOutcomes(rev, ReqWith(m, i, a, MixedName, v))
              /\ HasNormalize(rev) =>
                   /\ ChainHeaders(rev, ReqWith(m, i, a, MixedName, v)).lower = v
                   /\ ChainHeaders(rev, ReqWith(m, i, a, LowerName, v)).mixed = v
        /\ ChainHeaders(rev, ReqWith(m, i, a, "none", 1)).lower = NoSid
        /\ (HasBearerAuth(rev) => BearerAuth(ReqWith(m, i, a, "none", 1)))
              => \A o \in McpOutcomes(rev, ReqWith(m, i, a, "none", 1)) : o.reached

\* C4 witness: a singleton server resolved a tool invocation whose identifier
\* came under the mixed-case spelling to the session that was minted.
C4_Witness ==
    /\ Singleton(rev) /\ BearsLiveSid
    /\ last.sidName = MixedName
    /\ last.dispatched /\ last.respSid = last.sidValue

\* C5: on the servers with a module-level transport, a tool invocation
\* bearing a closed or unknown session identifier fails and creates no
\* session.
C5_ClosedStaysClosed ==
    (/\ Singleton(rev) /\ PastAuth /\ last.method = "POST" /\ ~last.init
     /\ last.sidName # "none" /\ (last.wasClosed \/ ~last.known))
        => (~last.dispatched /\ last.status \in {400, 404} /\ last.minted = NoSid)

OneRemoteCall == wpCount = toolOut.callsBefore + 1
NoRemoteCall == wpCount = toolOut.callsBefore /\ toolOut.sent = NoWpRequest

UpdateFields == {"title", "content", "status", "slug"}

\* C7: update_content with none of title, content, status, slug fails with
\* "Nothing to update" and issues no remote call; with at least one field
\* (and valid arguments) it issues exactly one remote call whose payload holds
\* exactly the fields given.
C7_UpdatePatch ==
    toolIn.tool = "update_content" =>
        /\ (\A f \in UpdateFields : toolIn[f] = NotGiven)
              => /\ toolOut.kind \in {"invalid", "error"}
                 /\ NoRemoteCall
                 /\ toolOut.kind = "error" => toolOut.err.source = "Nothing to update"
        /\ ((\E f \in UpdateFields : toolIn[f] # NotGiven) /\ toolOut.kind # "invalid")
              => /\ OneRemoteCall
                 /\ toolOut.sent.verb = "POST"
                 /\ \A f \in UpdateFields : toolOut.sent.body[f] = toolIn[f]

\* C7 witness: a valid update_content with no field was refused.
C7_Witness ==
    /\ toolIn.tool = "update_content"
    /\ \A f \in UpdateFields : toolIn[f] = NotGiven
    /\ toolOut.kind = "error" /\ toolOut.err.source = "Nothing to update"

Answered2xx == toolOut.resp.status >= 200 /\ toolOut.resp.status < 300
RemoteAnswered == toolOut.resp.status # NoStatus

NonNumericId(v) == v.t = "str" /\ StringToNumber(v.s).k = "nan"

\* C9: a non-numeric identifier given to get_content, update_content or
\* delete_content is refused before any remote call; only identifiers that
\* coerce to an integer reach the remote API.
C9_NonNumericRefused ==
    toolIn.tool \in {"get_content", "update_content", "delete_content"} =>
        /\ NonNumericId(toolIn.id) => (toolOut.kind = "invalid" /\ NoRemoteCall)
        /\ toolOut.sent.hasId => toolOut.sent.id.k = "int"

\* C10: list_content with page < 1 or per_page outside 1..100 fails
\* validation before any remote call; with page and per_page both absent the
\* remote call uses page=1 and per_page=10.
C10_ListBounds ==
    toolIn.tool = "list_content" =>
        /\ ((toolIn.page.t = "int" /\ toolIn.page.n < 1)
              \/ (toolIn.per_page.t = "int"
                    /\ (toolIn.per_page.n < 1 \/ toolIn.per_page.n > 100)))
              => (toolOut.kind = "invalid" /\ NoRemoteCall)
        /\ (toolIn.page.t = "undef" /\ toolIn.per_page.t = "undef"
              /\ toolOut.kind # "invalid")
              => /\ OneRemoteCall
                 /\ toolOut.sent.body.page = 1
                 /\ toolOut.sent.body.per_page = 10

\* C10 witness: list_content with per_page=150 was refused.
C10_Witness ==
    /\ toolIn.tool = "list_content"
    /\ toolIn.per_page.t = "int" /\ toolIn.per_page.n = 150
    /\ toolOut.kind = "invalid" /\ NoRemoteCall

\* the string is a plain decimal numeral
IsNumeral(cs) == cs # <<>> /\ IsDigits(cs)

\* the outcome of a get_content whose remote call req was answered resp
GetOutcome(req, resp) ==
    [kind |-> IF WpCheck(resp, req.action) = NoError THEN "ok" ELSE "error",
     err |-> WpCheck(resp, req.action)]

\* C11: get_content with the identifier given as a numeric string behaves as
\* get_content with the same identifier given as a number: the same
\* validation verdict, the same single remote call to /<type>/<id>, and for
\* the same remote answer the same result or the same failure.
C11_IdCoercion ==
    (toolIn.tool = "get_content" /\ toolIn.id.t = "str" /\ IsNumeral(toolIn.id.s)) =>
        LET n == DigitsValue(toolIn.id.s)
            asNumber == GetContentCall(toolIn.type, IntVal(n))
        IN /\ (toolOut.kind = "invalid") <=> ~asNumber.ok
           /\ toolOut.kind # "invalid" =>
                 /\ OneRemoteCall
                 /\ toolOut.sent = asNumber.req
                 /\ toolOut.sent.id = IntNum(n)
           /\ RemoteAnswered =>
                 /\ toolOut.kind = GetOutcome(asNumber.req, toolOut.resp).kind
                 /\ toolOut.err = GetOutcome(asNumber.req, toolOut.resp).err

\* C11 witness: get_content(type="post", id="44") fetched /post/44.
C11_Witness ==
    /\ toolIn.tool = "get_content" /\ toolIn.type = "post"
    /\ toolIn.id = StrVal(<<"4", "4">>)
    /\ toolOut.kind = "ok" /\ toolOut.sent.id = IntNum(44)

\* C12: whatever Accept the client declares (or none), a request that is past
\* the bearer step reaches the transport with the union of both supported
\* modes as its acceptable types, and a client that names one supported mode
\* is answered in that mode.
C12_NegotiationUnion ==
    PastAuth =>
        /\ last.reached
        /\ last.acceptSeen = AcceptUnion
        /\ (last.mode # "none" /\ last.accept = AcceptJson) => last.mode = "json"

\* C13: a failure raised while a /mcp request is handled is caught by the
\* program, logged and answered with the one generic 500 body; a rejection or
\* exception outside a request is logged by a handler of the program; and in
\* every case the process is still running.
C13_FailureContained ==
    /\ alive
    /\ failure.kind = "request" =>
          /\ failure.handled /\ failure.logged
          /\ failure.status = 500 /\ failure.body = GenericBody
    /\ failure.kind \in AsyncKinds => failure.handled /\ failure.logged

====
